---- MODULE Spec2Model ----
(***************************************************************************)
(* Model of the avatar viewer's animation controller                       *)
(* (client/src/components/AvatarViewer.tsx): the mount effect, the model   *)
(* load, the three independent animation loads and their completion        *)
(* callback onAnimationLoaded, the render loop, and playAnimation; of the   *)
(* unmount and of re-runs of the effect; and of the pure function          *)
(* retargetAnimation of the same file.                                     *)
(*                                                                         *)
(* A THREE.AnimationAction is modelled by the two fields the controller    *)
(* can observe: whether the mixer currently runs it (playing) and its      *)
(* local playback time (time), counted in whole frames and wrapping at     *)
(* the clip's duration (the default loop mode is LoopRepeat).              *)
(***************************************************************************)
EXTENDS Integers, FiniteSets, Sequences, TLC

\* ---------------------------------------------------------------- bounds
\* Length of every clip in frames; playback time lives in 0..Duration-1.
Duration == 3
\* Largest elapsed time, in frames, that one render tick may report.
MaxDelta == 2

\* Most runs of the effect (the first run and the re-runs).
MaxRuns == 2
\* Most tracks in a source clip.
MaxTracks == 2
\* Most leading copies of the Mixamo prefix in a source track name.
MaxPrefix == 2
\* Most successive applications of retargetAnimation to one clip.
MaxApplications == 3

\* ------------------------------------------------------ program constants
\* const totalAnimations = 3
totalAnimations == 3

\* The three animation identifiers of AvatarViewerProps.animationUrls.
Names == {"walking", "sitting", "standing_up"}

\* The value of an empty ref / empty state (null in the source).
null == "null"

\* currentActionRef holding an action that a later registration under the
\* same name has replaced in actionsRef.
Detached == "detached"

VARIABLES
    effect,             \* position of the mount effect: "idle", "run", "failed"
    modelLoad,          \* loader.load(avatarUrl): "idle", "pending", "done", "failed"
    animLoad,           \* animationLoader.load per name: "idle", "pending", "done",
                        \* "empty" (delivered without a clip), "failed"
    mixerRef,           \* TRUE once mixerRef.current holds the mixer
    actionsRef,         \* actionsRef.current: registered name -> action
    currentActionRef,   \* currentActionRef.current: a registered name or null
    loadedAnimations,   \* the closure counter of the current run's model-load
                        \* callback (0 while that closure does not exist)
    isLoading,          \* React state isLoading
    error,              \* React state error
    readyTransitions,   \* history: times the all-loaded branch has executed
    order,              \* history: names in the order the current run registered them
    lastOp,             \* history: the operation that produced this state
    pre,                \* history: refs as they were before that operation
    clip,               \* the source clip handed to retargetAnimation
    retargeted,         \* retargeted[k]: the clip after k applications
    mounted,            \* TRUE until the component is unmounted
    run,                \* number of effect runs started so far
    loops,              \* the runs whose animate loop is running
    mixerOf,            \* registered name -> run whose mixer owns the action
    detached,           \* the action currentActionRef holds when Detached
    resizeListeners,    \* 'resize' listeners of the component on window
    renderers,          \* WebGLRenderers created and not disposed
    canvases            \* renderer canvases that are children of the container

vars == <<effect, modelLoad, animLoad, mixerRef, actionsRef, currentActionRef,
          loadedAnimations, isLoading, error, readyTransitions, order,
          lastOp, pre, clip, retargeted, mounted, run, loops, mixerOf,
          detached, resizeListeners, renderers, canvases>>

lifeVars == <<mounted, run, loops, resizeListeners, renderers, canvases>>

retargetVars == <<clip, retargeted>>

\* ------------------------------------------------ THREE.AnimationAction
\* mixer.clipAction(clip): a fresh action, not scheduled, at time zero.
clipAction == [playing |-> FALSE, time |-> 0]

\* The value of detached while currentActionRef is not Detached.
NoAction == [playing |-> FALSE, time |-> 0, mixer |-> 0]

\* action.reset(): time back to zero; the scheduling state is untouched.
reset(acts, a) == [acts EXCEPT ![a].time = 0]

\* action.play(): the mixer activates the action.
play(acts, a) == [acts EXCEPT ![a].playing = TRUE]

\* Variant: stop() rewinds the action but leaves it scheduled.
stop_ResetOnly(acts, a) == reset(acts, a)

\* action.stop(): the mixer deactivates the action, then reset().
stop(acts, a) == reset([acts EXCEPT ![a].playing = FALSE], a)

\* mixer.update(delta): every running action advances by delta, looping.
update(acts, delta) ==
    [a \in DOMAIN acts |->
        IF acts[a].playing
        THEN [acts[a] EXCEPT !.time = (acts[a].time + delta) % Duration]
        ELSE acts[a]]

\* ------------------------------------------------------------- history
Snapshot ==
    [currentActionRef |-> currentActionRef,
     actionsRef       |-> actionsRef,
     mixerRef         |-> mixerRef,
     loadedAnimations |-> loadedAnimations,
     isLoading        |-> isLoading,
     error            |-> error]

Record(op, name) ==
    /\ lastOp' = [op |-> op, name |-> name]
    /\ pre' = Snapshot

\* ------------------------------------------------------------ the state
\* The component right after its first render.
ControllerInit ==
    /\ effect = "idle"
    /\ modelLoad = "idle"
    /\ animLoad = [n \in Names |-> "idle"]
    /\ mixerRef = FALSE
    /\ actionsRef = << >>
    /\ currentActionRef = null
    /\ loadedAnimations = 0
    /\ isLoading = TRUE
    /\ error = null
    /\ readyTransitions = 0
    /\ order = << >>
    /\ lastOp = [op |-> "init", name |-> null]
    /\ pre = [currentActionRef |-> null, actionsRef |-> << >>,
              mixerRef |-> FALSE, loadedAnimations |-> 0, isLoading |-> TRUE,
              error |-> null]
    /\ mounted = TRUE
    /\ run = 0
    /\ loops = {}
    /\ mixerOf = << >>
    /\ detached = NoAction
    /\ resizeListeners = 0
    /\ renderers = 0
    /\ canvases = 0

\* The placeholder for "no clip has been loaded".
NoClip == [name |-> null, duration |-> 0, tracks |-> << >>]

Init ==
    /\ ControllerInit
    /\ clip = NoClip
    /\ retargeted = << >>

\* ------------------------------------------------------------- React
\* setIsLoading / setError: a state update of an unmounted component is
\* dropped.
setIsLoading(v) == isLoading' = IF mounted THEN v ELSE isLoading
setError(v) == error' = IF mounted THEN v ELSE error

\* ---------------------------------------------------------- the effect
\* useEffect body, normal path, first run: scene, camera, renderer and
\* lights are set up, the canvas is appended and the avatar load is issued.
EffectRun ==
    /\ effect = "idle"
    /\ effect' = "run"
    /\ modelLoad' = "pending"
    /\ run' = run + 1
    /\ renderers' = renderers + 1
    /\ canvases' = canvases + 1
    /\ Record("effect", null)
    /\ UNCHANGED retargetVars
    /\ UNCHANGED <<animLoad, mixerRef, actionsRef, currentActionRef,
                   loadedAnimations, isLoading, error, readyTransitions, order,
                   mounted, loops, mixerOf, detached, resizeListeners>>

\* useEffect body, catch path, first run: the 3D context could not be
\* created.
EffectFailed ==
    /\ effect = "idle"
    /\ effect' = "failed"
    /\ run' = run + 1
    /\ setError("Failed to initialize 3D viewer")
    /\ setIsLoading(FALSE)
    /\ Record("effectFailed", null)
    /\ UNCHANGED retargetVars
    /\ UNCHANGED <<modelLoad, animLoad, mixerRef, actionsRef, currentActionRef,
                   loadedAnimations, readyTransitions, order,
                   mounted, loops, mixerOf, detached, resizeListeners,
                   renderers, canvases>>

\* loader.load success callback: the mixer is constructed, the three
\* animation loads are issued, the render loop is started and the resize
\* listener is installed. The function it returns is discarded by the
\* loader.
ModelLoaded ==
    /\ modelLoad = "pending"
    /\ modelLoad' = "done"
    /\ mixerRef' = TRUE
    /\ loadedAnimations' = 0
    /\ animLoad' = [n \in Names |-> "pending"]
    /\ loops' = loops \cup {run}
    /\ resizeListeners' = resizeListeners + 1
    /\ Record("modelLoaded", null)
    /\ UNCHANGED retargetVars
    /\ UNCHANGED <<effect, actionsRef, currentActionRef, isLoading, error,
                   readyTransitions, order,
                   mounted, run, mixerOf, detached, renderers, canvases>>

\* Variant: the error callback reports the error but leaves the loading
\* flag set.
ModelFailed_KeepsLoading ==
    /\ modelLoad = "pending"
    /\ modelLoad' = "failed"
    /\ setError("Failed to load avatar model")
    /\ Record("modelFailed", null)
    /\ UNCHANGED retargetVars
    /\ UNCHANGED <<effect, animLoad, mixerRef, actionsRef, currentActionRef,
                   loadedAnimations, isLoading, readyTransitions, order,
                   mixerOf, detached>>
    /\ UNCHANGED lifeVars

\* loader.load error callback.
ModelFailed ==
    /\ modelLoad = "pending"
    /\ modelLoad' = "failed"
    /\ setError("Failed to load avatar model")
    /\ setIsLoading(FALSE)
    /\ Record("modelFailed", null)
    /\ UNCHANGED retargetVars
    /\ UNCHANGED <<effect, animLoad, mixerRef, actionsRef, currentActionRef,
                   loadedAnimations, readyTransitions, order,
                   mixerOf, detached>>
    /\ UNCHANGED lifeVars

\* ------------------------------------------------- animation completion
\* actionsRef.current[name] = action replaces the action registered under
\* name; a pointer to the replaced action then refers to an action that is
\* no longer in the registry.
PointerAfterWrite(name) ==
    IF currentActionRef = name THEN Detached ELSE currentActionRef

DetachedAfterWrite(name) ==
    IF currentActionRef = name
    THEN [playing |-> actionsRef[name].playing,
          time    |-> actionsRef[name].time,
          mixer   |-> mixerOf[name]]
    ELSE detached

\* The registry write without the all-loaded branch.
Registered(name, acts) ==
    /\ actionsRef' = acts
    /\ currentActionRef' = PointerAfterWrite(name)
    /\ detached' = DetachedAfterWrite(name)

\* The all-loaded branch of onAnimationLoaded: select and play the default.
SelectDefault(name, acts) ==
    IF "walking" \in DOMAIN acts
    THEN /\ currentActionRef' = "walking"
         /\ actionsRef' = play(acts, "walking")
         /\ detached' = NoAction
    ELSE Registered(name, acts)

\* Variant: the all-loaded branch selects the action just registered
\* instead of the one registered under 'walking'.
onAnimationLoaded_SelectsLoaded(name, hasClip) ==
    IF hasClip
    THEN LET acts == (name :> clipAction) @@ actionsRef
         IN /\ loadedAnimations' = loadedAnimations + 1
            /\ order' = Append(order, name)
            /\ IF loadedAnimations + 1 = totalAnimations
               THEN /\ currentActionRef' = name
                    /\ actionsRef' = play(acts, name)
                    /\ detached' = NoAction
                    /\ setIsLoading(FALSE)
                    /\ readyTransitions' = readyTransitions + 1
               ELSE /\ Registered(name, acts)
                    /\ UNCHANGED <<isLoading, readyTransitions>>
    ELSE UNCHANGED <<actionsRef, currentActionRef, detached, loadedAnimations,
                     isLoading, readyTransitions, order>>

\* Variant: the counter is compared before it is incremented.
onAnimationLoaded_ComparesFirst(name, hasClip) ==
    IF hasClip
    THEN LET acts == (name :> clipAction) @@ actionsRef
         IN /\ loadedAnimations' = loadedAnimations + 1
            /\ order' = Append(order, name)
            /\ IF loadedAnimations = totalAnimations
               THEN /\ SelectDefault(name, acts)
                    /\ setIsLoading(FALSE)
                    /\ readyTransitions' = readyTransitions + 1
               ELSE /\ Registered(name, acts)
                    /\ UNCHANGED <<isLoading, readyTransitions>>
    ELSE UNCHANGED <<actionsRef, currentActionRef, detached, loadedAnimations,
                     isLoading, readyTransitions, order>>

\* Variant: the counter is incremented for an asset without a clip too.
onAnimationLoaded_CountsEmpty(name, hasClip) ==
    /\ loadedAnimations' = loadedAnimations + 1
    /\ order' = IF hasClip THEN Append(order, name) ELSE order
    /\ IF hasClip
       THEN LET acts == (name :> clipAction) @@ actionsRef
            IN IF loadedAnimations + 1 = totalAnimations
               THEN /\ SelectDefault(name, acts)
                    /\ setIsLoading(FALSE)
                    /\ readyTransitions' = readyTransitions + 1
               ELSE /\ Registered(name, acts)
                    /\ UNCHANGED <<isLoading, readyTransitions>>
       ELSE IF loadedAnimations + 1 = totalAnimations
            THEN /\ IF "walking" \in DOMAIN actionsRef
                    THEN /\ currentActionRef' = "walking"
                         /\ actionsRef' = play(actionsRef, "walking")
                         /\ detached' = NoAction
                    ELSE UNCHANGED <<actionsRef, currentActionRef, detached>>
                 /\ setIsLoading(FALSE)
                 /\ readyTransitions' = readyTransitions + 1
            ELSE UNCHANGED <<actionsRef, currentActionRef, detached,
                             isLoading, readyTransitions>>

\* Variant: the default is selected as soon as 'walking' is registered,
\* outside the all-loaded check.
onAnimationLoaded_SelectsEarly(name, hasClip) ==
    IF hasClip
    THEN LET acts == (name :> clipAction) @@ actionsRef
         IN /\ loadedAnimations' = loadedAnimations + 1
            /\ order' = Append(order, name)
            /\ SelectDefault(name, acts)
            /\ IF loadedAnimations + 1 = totalAnimations
               THEN /\ setIsLoading(FALSE)
                    /\ readyTransitions' = readyTransitions + 1
               ELSE UNCHANGED <<isLoading, readyTransitions>>
    ELSE UNCHANGED <<actionsRef, currentActionRef, detached, loadedAnimations,
                     isLoading, readyTransitions, order>>

\* onAnimationLoaded(name, fbxScene); hasClip is fbxScene.animations[0]
\* being defined. The clip that retargetAnimation returns is bound to the
\* new action; its tracks play no part in the controller's state.
onAnimationLoaded(name, hasClip) ==
    IF hasClip
    THEN LET acts == (name :> clipAction) @@ actionsRef
         IN /\ loadedAnimations' = loadedAnimations + 1
            /\ order' = Append(order, name)
            /\ IF loadedAnimations + 1 = totalAnimations
               THEN /\ SelectDefault(name, acts)
                    /\ setIsLoading(FALSE)
                    /\ readyTransitions' = readyTransitions + 1
               ELSE /\ Registered(name, acts)
                    /\ UNCHANGED <<isLoading, readyTransitions>>
    ELSE UNCHANGED <<actionsRef, currentActionRef, detached, loadedAnimations,
                     isLoading, readyTransitions, order>>

\* animationLoader.load success callback for one name, asset with a clip.
\* The new action belongs to the mixer of the run that issued the load.
AnimationLoaded ==
    \E name \in Names :
        /\ animLoad[name] = "pending"
        /\ animLoad' = [animLoad EXCEPT ![name] = "done"]
        /\ onAnimationLoaded(name, TRUE)
        /\ mixerOf' = (name :> run) @@ mixerOf
        /\ Record("onAnimationLoaded", name)
        /\ UNCHANGED retargetVars
        /\ UNCHANGED <<effect, modelLoad, mixerRef, error>>
        /\ UNCHANGED lifeVars

\* animationLoader.load success callback for one name, asset without clip.
AnimationEmpty ==
    \E name \in Names :
        /\ animLoad[name] = "pending"
        /\ animLoad' = [animLoad EXCEPT ![name] = "empty"]
        /\ onAnimationLoaded(name, FALSE)
        /\ Record("onAnimationEmpty", name)
        /\ UNCHANGED retargetVars
        /\ UNCHANGED <<effect, modelLoad, mixerRef, error, mixerOf>>
        /\ UNCHANGED lifeVars

\* animationLoader.load failing: no error callback is passed, so nothing
\* of the component runs.
AnimationFailed ==
    \E name \in Names :
        /\ animLoad[name] = "pending"
        /\ animLoad' = [animLoad EXCEPT ![name] = "failed"]
        /\ Record("animationFailed", name)
        /\ UNCHANGED retargetVars
        /\ UNCHANGED <<effect, modelLoad, mixerRef, actionsRef, currentActionRef,
                       loadedAnimations, isLoading, error, readyTransitions, order,
                       mixerOf, detached>>
        /\ UNCHANGED lifeVars

\* ----------------------------------------------------------- render loop
\* animate(): one frame of one of the running loops; a loop drives the
\* mixer of its own run and is never cancelled.
animate ==
    /\ \E mixer \in loops, delta \in 0..MaxDelta :
          LET mine == {a \in DOMAIN actionsRef : mixerOf[a] = mixer}
          IN /\ actionsRef' =
                    update([a \in mine |-> actionsRef[a]], delta) @@ actionsRef
             /\ detached' =
                    IF detached.mixer = mixer
                    THEN update(Detached :> detached, delta)[Detached]
                    ELSE detached
    /\ Record("animate", null)
    /\ UNCHANGED retargetVars
    /\ UNCHANGED <<effect, modelLoad, animLoad, mixerRef, currentActionRef,
                   loadedAnimations, isLoading, error, readyTransitions, order,
                   mixerOf>>
    /\ UNCHANGED lifeVars

\* ------------------------------------------------------------- switchTo
\* currentActionRef.current.stop(), on whichever action the pointer holds.
StopCurrent ==
    IF currentActionRef \in DOMAIN actionsRef
    THEN stop(actionsRef, currentActionRef)
    ELSE actionsRef

StopDetached ==
    IF currentActionRef = Detached
    THEN stop(Detached :> detached, Detached)[Detached]
    ELSE detached

\* Variant: a request for the action that is already active returns early.
playAnimation_SkipActive(animationName) ==
    IF ~mixerRef \/ animationName = currentActionRef
    THEN UNCHANGED <<actionsRef, currentActionRef, detached>>
    ELSE IF animationName \in DOMAIN actionsRef
         THEN /\ currentActionRef' = animationName
              /\ actionsRef' = play(reset(StopCurrent, animationName), animationName)
              /\ detached' = NoAction
         ELSE /\ actionsRef' = StopCurrent
              /\ detached' = StopDetached
              /\ UNCHANGED currentActionRef

\* playAnimation(animationName), the click handler of the three buttons.
playAnimation(animationName) ==
    IF ~mixerRef
    THEN UNCHANGED <<actionsRef, currentActionRef, detached>>
    ELSE IF animationName \in DOMAIN actionsRef
         THEN /\ currentActionRef' = animationName
              /\ actionsRef' = play(reset(StopCurrent, animationName), animationName)
              /\ detached' = NoAction
         ELSE /\ actionsRef' = StopCurrent
              /\ detached' = StopDetached
              /\ UNCHANGED currentActionRef

\* A click on one of the three buttons, which exist while mounted.
Click ==
    \E name \in Names :
        /\ mounted
        /\ playAnimation(name)
        /\ Record("playAnimation", name)
        /\ UNCHANGED retargetVars
        /\ UNCHANGED <<effect, modelLoad, animLoad, mixerRef, loadedAnimations,
                       isLoading, error, readyTransitions, order, mixerOf>>
        /\ UNCHANGED lifeVars

\* -------------------------------------------------------------- teardown
\* The cleanup the effect returned (normal path only): the canvas of that
\* run is removed from the container if the container still exists.
CanvasesAfterCleanup(container) ==
    IF effect = "run" /\ container THEN canvases - 1 ELSE canvases

\* Unmount: React clears containerRef.current, then runs the cleanup.
Unmount ==
    /\ mounted
    /\ effect # "idle"
    /\ mounted' = FALSE
    /\ canvases' = CanvasesAfterCleanup(FALSE)
    /\ Record("unmount", null)
    /\ UNCHANGED retargetVars
    /\ UNCHANGED <<effect, modelLoad, animLoad, mixerRef, actionsRef,
                   currentActionRef, loadedAnimations, isLoading, error,
                   readyTransitions, order, run, loops, mixerOf, detached,
                   resizeListeners, renderers>>

\* Every load the current run issued has been delivered or has failed, so
\* no callback of its closure is still to come.
Quiescent ==
    /\ modelLoad # "pending"
    /\ \A n \in Names : animLoad[n] # "pending"

\* avatarUrl or animationUrls changed: the cleanup runs, then the effect
\* body again, normal path. The refs and the React state are not reset.
Rerun ==
    /\ mounted
    /\ effect # "idle"
    /\ run < MaxRuns
    /\ Quiescent
    /\ effect' = "run"
    /\ run' = run + 1
    /\ modelLoad' = "pending"
    /\ animLoad' = [n \in Names |-> "idle"]
    /\ loadedAnimations' = 0
    /\ order' = << >>
    /\ renderers' = renderers + 1
    /\ canvases' = CanvasesAfterCleanup(TRUE) + 1
    /\ Record("rerun", null)
    /\ UNCHANGED retargetVars
    /\ UNCHANGED <<mixerRef, actionsRef, currentActionRef, isLoading, error,
                   readyTransitions, mounted, loops, mixerOf, detached,
                   resizeListeners>>

\* The same change of props, with the effect body taking its catch path.
RerunFailed ==
    /\ mounted
    /\ effect # "idle"
    /\ run < MaxRuns
    /\ Quiescent
    /\ effect' = "failed"
    /\ run' = run + 1
    /\ modelLoad' = "idle"
    /\ animLoad' = [n \in Names |-> "idle"]
    /\ loadedAnimations' = 0
    /\ order' = << >>
    /\ setError("Failed to initialize 3D viewer")
    /\ setIsLoading(FALSE)
    /\ canvases' = CanvasesAfterCleanup(TRUE)
    /\ Record("rerunFailed", null)
    /\ UNCHANGED retargetVars
    /\ UNCHANGED <<mixerRef, actionsRef, currentActionRef, readyTransitions,
                   mounted, loops, mixerOf, detached, resizeListeners, renderers>>

\* ----------------------------------------------------- retargetAnimation
\* A track name is a string, modelled as the sequence of its parts: zero
\* or more copies of the Mixamo prefix, a bone name, a property suffix.
Prefix == "mixamorig"
Bones == {"Hips", "Spine"}
Suffixes == {".position", ".scale", ".quaternion", ".morphTargetInfluences"}

\* The concrete track class the loader builds for a property.
KindOf(suffix) ==
    CASE suffix = ".quaternion" -> "QuaternionKeyframeTrack"
      [] suffix = ".morphTargetInfluences" -> "NumberKeyframeTrack"
      [] OTHER -> "VectorKeyframeTrack"

\* The key times and the values the loader delivers for a property.
SamplesOf(suffix) ==
    CASE suffix = ".quaternion" ->
            [times |-> <<0, 1>>, values |-> <<0, 0, 0, 1, 0, 1, 0, 0>>]
      [] suffix = ".morphTargetInfluences" ->
            [times |-> <<0>>, values |-> <<1>>]
      [] suffix = ".position" ->
            [times |-> <<0, 1>>, values |-> <<0, 0, 0, 1, 2, 3>>]
      [] OTHER ->
            [times |-> <<1>>, values |-> <<1, 1, 1>>]

Prefixes(k) == [i \in 1..k |-> Prefix]

TrackNames ==
    {Prefixes(k) \o <<b, x>> : k \in 0..MaxPrefix, b \in Bones, x \in Suffixes}

Track(name) ==
    LET suffix == name[Len(name)]
    IN [name   |-> name,
        times  |-> SamplesOf(suffix).times,
        values |-> SamplesOf(suffix).values,
        kind   |-> KindOf(suffix)]

TrackLists ==
    UNION {[1..n -> {Track(name) : name \in TrackNames}] : n \in 0..MaxTracks}

Clips ==
    {[name |-> nm, duration |-> d, tracks |-> ts] :
        nm \in {"mixamo.com", "Take 001"}, d \in 1..2, ts \in TrackLists}

\* String.prototype.endsWith, on the parts of a name.
endsWith(name, suffix) == Len(name) > 0 /\ name[Len(name)] = suffix

\* Variant: only position tracks are skipped.
skipped_PositionOnly(track) == endsWith(track.name, ".position")

\* The condition of the `continue` in the loop.
skipped(track) ==
    endsWith(track.name, ".position") \/ endsWith(track.name, ".scale")

\* Variant: the first nine characters are cut off whatever they are
\* (substring in place of the anchored replace).
newName_CutsAlways(track) ==
    IF Len(track.name) > 0 THEN Tail(track.name) ELSE track.name

\* track.name.replace(/^mixamorig/, ''): one leading prefix is removed.
newName(track) ==
    IF Len(track.name) > 0 /\ track.name[1] = Prefix
    THEN Tail(track.name)
    ELSE track.name

\* Variant: every clone is built as a quaternion track.
newTrack_AlwaysQuaternion(track) ==
    [name   |-> newName(track),
     times  |-> track.times,
     values |-> track.values,
     kind   |-> "QuaternionKeyframeTrack"]

\* new TrackConstructor(newName, track.times, track.values), with
\* TrackConstructor the source track's own constructor.
newTrack(track) ==
    [name   |-> newName(track),
     times  |-> track.times,
     values |-> track.values,
     kind   |-> track.kind]

\* The loop over clip.tracks, from track i on, appending to newTracks.
RECURSIVE retargetLoop(_, _, _)
retargetLoop(tracks, i, newTracks) ==
    IF i > Len(tracks)
    THEN newTracks
    ELSE IF skipped(tracks[i])
         THEN retargetLoop(tracks, i + 1, newTracks)
         ELSE retargetLoop(tracks, i + 1, Append(newTracks, newTrack(tracks[i])))

retargetAnimation(c) ==
    [name     |-> c.name,
     duration |-> c.duration,
     tracks   |-> retargetLoop(c.tracks, 1, << >>)]

\* One call of retargetAnimation: on the source clip first, then on the
\* clip the previous call returned. The argument is not assigned to.
Retarget ==
    /\ clip # NoClip
    /\ Len(retargeted) < MaxApplications
    /\ retargeted' = Append(retargeted,
                            retargetAnimation(IF retargeted = << >>
                                              THEN clip
                                              ELSE retargeted[Len(retargeted)]))
    /\ UNCHANGED <<clip, effect, modelLoad, animLoad, mixerRef, actionsRef,
                   currentActionRef, loadedAnimations, isLoading, error,
                   readyTransitions, order, lastOp, pre, mixerOf, detached>>
    /\ UNCHANGED lifeVars

\* ------------------------------------------------------- specifications
Next ==
    \/ EffectRun
    \/ EffectFailed
    \/ ModelLoaded
    \/ ModelFailed
    \/ AnimationLoaded
    \/ AnimationEmpty
    \/ AnimationFailed
    \/ animate
    \/ Click

Spec == Init /\ [][Next]_vars

\* The loads and the render loop alone: no button is ever clicked.
NextLoad ==
    \/ EffectRun
    \/ EffectFailed
    \/ ModelLoaded
    \/ ModelFailed
    \/ AnimationLoaded
    \/ AnimationEmpty
    \/ AnimationFailed
    \/ animate

LoadSpec == Init /\ [][NextLoad]_vars

\* retargetAnimation alone, on every source clip within the bounds.
RetargetInit ==
    /\ ControllerInit
    /\ clip \in Clips
    /\ retargeted = << >>

RetargetNext == Retarget

RetargetSpec == RetargetInit /\ [][RetargetNext]_vars

\* The component over its whole life: unmounting, and re-runs of the
\* effect taken once the previous run's loads have all been delivered.
NextLife ==
    \/ Next
    \/ Unmount
    \/ Rerun
    \/ RerunFailed

LifeSpec == Init /\ [][NextLife]_vars

\* ------------------------------------------------------------ vocabulary
Registry == DOMAIN actionsRef
Playing == {n \in Registry : actionsRef[n].playing}

TypeOK ==
    /\ effect \in {"idle", "run", "failed"}
    /\ modelLoad \in {"idle", "pending", "done", "failed"}
    /\ animLoad \in [Names -> {"idle", "pending", "done", "empty", "failed"}]
    /\ mixerRef \in BOOLEAN
    /\ Registry \subseteq Names
    /\ \A n \in Registry : actionsRef[n].time \in 0..(Duration - 1)
    /\ currentActionRef \in Names \cup {null, Detached}
    /\ (currentActionRef = Detached) <=> (detached # NoAction)
    /\ DOMAIN mixerOf = Registry
    /\ run \in 0..MaxRuns
    /\ loadedAnimations \in 0..totalAnimations
    /\ isLoading \in BOOLEAN

\* The last step was playAnimation(name) ...
Switched(name) == lastOp = [op |-> "playAnimation", name |-> name]
\* ... and name was registered and the mixer constructed when it was called.
SwitchedRegistered(name) ==
    /\ Switched(name)
    /\ pre.mixerRef
    /\ name \in DOMAIN pre.actionsRef
\* The last step was the registration that completed the expected set.
ReadyFired ==
    /\ lastOp.op = "onAnimationLoaded"
    /\ Registry = Names
    /\ DOMAIN pre.actionsRef # Names

\* ================================================================ claims

\* C1: in every reachable state at most one registered action is playing.
\* Fails: the all-loaded branch plays walking without stopping the action
\* a click selected while the loads were still in flight.
C1_AtMostOnePlaying == Cardinality(Playing) <= 1

\* C2: playAnimation(name) with name not in the registry, or with no mixer
\* constructed, changes neither the active-action pointer nor any action's
\* playing flag or playback position.
\* Fails: with a mixer and an active action, the active action is stopped
\* before the registry is consulted.
C2_UnregisteredSwitchIsNoOp ==
    \A name \in Names :
        (Switched(name) /\ (name \notin DOMAIN pre.actionsRef \/ ~pre.mixerRef))
            => /\ currentActionRef = pre.currentActionRef
               /\ actionsRef = pre.actionsRef

\* C3: after playAnimation(name) for a registered name, with the mixer
\* constructed, exactly one action is playing: the one registered under name.
\* Fails from the two-playing states of C1: only the pointed-to action is
\* stopped.
C3_ExactlyTargetPlaying ==
    \A name \in Names : SwitchedRegistered(name) => Playing = {name}

\* C4: when A is the active action and a different name B is registered,
\* playAnimation(B) leaves A not playing, B playing at frame zero, and B
\* the active action.
C4_SwitchStopsOldStartsNew ==
    \A A, B \in Names :
        (SwitchedRegistered(B) /\ pre.currentActionRef = A /\ A # B)
            => /\ ~actionsRef[A].playing
               /\ actionsRef[B].playing
               /\ actionsRef[B].time = 0
               /\ currentActionRef = B

C4_Witness ==
    \E A, B \in Names :
        /\ SwitchedRegistered(B) /\ pre.currentActionRef = A /\ A # B
        /\ pre.actionsRef[A].playing /\ pre.actionsRef[A].time > 0
        /\ ~pre.actionsRef[B].playing
        /\ currentActionRef = B /\ Playing = {B}

\* C5: playAnimation with the name of the active action, after any frame
\* advances, leaves that action active and playing at frame zero.
C5_RestartActive ==
    \A name \in Names :
        (Switched(name) /\ pre.currentActionRef = name)
            => /\ currentActionRef = name
               /\ actionsRef[name].playing
               /\ actionsRef[name].time = 0

C5_Witness ==
    \E name \in Names :
        /\ Switched(name) /\ pre.currentActionRef = name
        /\ pre.actionsRef[name].playing /\ pre.actionsRef[name].time > 0
        /\ actionsRef[name].time = 0

\* C6 (LoadSpec): whatever the order in which the three names register, the
\* state right after the third registration is the same: loading finished,
\* all three names registered, walking the active action, playing at frame
\* zero, and nothing else playing.
ReadyState ==
    [walking     |-> [playing |-> TRUE,  time |-> 0],
     sitting     |-> [playing |-> FALSE, time |-> 0],
     standing_up |-> [playing |-> FALSE, time |-> 0]]

C6_OrderIndependent ==
    (Len(order) = totalAnimations /\ lastOp.op = "onAnimationLoaded")
        => /\ ~isLoading
           /\ actionsRef = ReadyState
           /\ currentActionRef = "walking"
           /\ loadedAnimations = totalAnimations

C6_Witness ==
    /\ order = <<"walking", "standing_up", "sitting">>
    /\ lastOp.op = "onAnimationLoaded"
    /\ actionsRef = ReadyState
    /\ currentActionRef = "walking"

\* C7: the Loading-to-Ready transition fires exactly once: never while the
\* registry lacks one of the three names, never twice, and always on the
\* registration that completes the registry, where it clears the loading
\* flag and makes walking the active, playing action.
C7_ReadyExactlyOnce ==
    /\ readyTransitions \in {0, 1}
    /\ (readyTransitions = 1) <=> (Registry = Names)
    /\ (readyTransitions = 1) => ~isLoading
    /\ (readyTransitions = 0 /\ error = null) => isLoading
    /\ ReadyFired => /\ readyTransitions = 1
                     /\ pre.isLoading
                     /\ currentActionRef = "walking"
                     /\ actionsRef["walking"].playing

C7_Witness ==
    /\ ReadyFired
    /\ readyTransitions = 1
    /\ ~isLoading
    /\ lastOp.name # "walking"

\* C8: when the Ready transition fires, walking becomes the active action
\* and plays from playback position zero, whatever clicks and frames
\* happened during loading.
\* Fails: play() does not rewind an action that is already running.
C8_DefaultStartsAtZero ==
    ReadyFired => /\ currentActionRef = "walking"
                  /\ actionsRef["walking"].playing
                  /\ actionsRef["walking"].time = 0

\* C9: once a load has failed or delivered no clip, the controller stays in
\* Loading for good, the all-loaded branch never runs, that name is never
\* registered, and every load that completed with a clip is registered.
C9_State ==
    /\ \A n \in Names :
          /\ animLoad[n] \in {"failed", "empty"}
                => /\ n \notin Registry
                   /\ isLoading
                   /\ readyTransitions = 0
                   /\ loadedAnimations < totalAnimations
          /\ animLoad[n] = "done" => n \in Registry
    /\ (modelLoad = "done" /\ Registry # Names)
          => isLoading /\ readyTransitions = 0

C9_Permanent ==
    \A n \in Names :
        animLoad[n] \in {"failed", "empty"} => animLoad'[n] = animLoad[n]

C9_FewerThanThreeStaysLoading == []C9_State /\ [][C9_Permanent]_vars

C9_Witness ==
    /\ \E n \in Names : animLoad[n] = "failed"
    /\ \E n \in Names : animLoad[n] = "empty"
    /\ \E n \in Names : animLoad[n] = "done" /\ n \in Registry
    /\ isLoading

\* C10 (as stated): while fewer than three animations are registered, no
\* action is the active action.
\* Fails: playAnimation of an already registered name selects it.
C10_NoneSelectedWhileLoading ==
    Registry # Names => currentActionRef = null

\* C10 (amended): while fewer than three animations are registered, a
\* registration never selects an active action; the pointer changes only
\* by playAnimation of a registered name, to that name.
C10_OnlySwitchSelectsWhileLoading ==
    (Registry # Names /\ currentActionRef # pre.currentActionRef)
        => \E name \in Names :
              SwitchedRegistered(name) /\ currentActionRef = name

C10_Witness ==
    /\ lastOp = [op |-> "onAnimationLoaded", name |-> "walking"]
    /\ Cardinality(Registry) = 2
    /\ currentActionRef = null
    /\ isLoading

\* C14: once the model load has failed, the error is set, the loading flag
\* is cleared, no mixer exists, no animation load has been issued, the
\* registry and the active-action pointer are empty, and a playAnimation
\* call changes nothing.
C14_ModelFailureLeavesNothing ==
    modelLoad = "failed"
        => /\ error = "Failed to load avatar model"
           /\ ~isLoading
           /\ ~mixerRef
           /\ \A n \in Names : animLoad[n] = "idle"
           /\ Registry = {}
           /\ currentActionRef = null
           /\ lastOp.op = "playAnimation"
                 => /\ actionsRef = pre.actionsRef
                    /\ currentActionRef = pre.currentActionRef

C14_Witness ==
    /\ modelLoad = "failed"
    /\ lastOp.op = "playAnimation"
    /\ error # null
    /\ currentActionRef = null

\* C20: whenever the active-action pointer is set, it names an action that
\* is in the registry and is playing.
\* Fails through the defect of C2: a request for an unregistered name stops
\* the active action and leaves the pointer on it.
C20_PointerIsPlaying ==
    currentActionRef # null
        => /\ currentActionRef \in Registry
           /\ actionsRef[currentActionRef].playing

\* ------------------------------------------------- retargeting vocabulary
\* The property suffix of a track name, read off the name itself.
SuffixOf(name) == name[Len(name)]
NamesOf(tracks) == [i \in 1..Len(tracks) |-> tracks[i].name]
IsRotationName(name) == SuffixOf(name) = ".quaternion"
IsPositionOrScaleName(name) == SuffixOf(name) \in {".position", ".scale"}
StartsWithPrefix(name) == name[1] = Prefix
\* A name with one leading prefix removed when it has one.
Stripped(name) ==
    IF StartsWithPrefix(name) THEN SubSeq(name, 2, Len(name)) ELSE name
\* The source tracks that are not position or scale tracks, in order.
IsKept(t) == ~IsPositionOrScaleName(t.name)
Retained(c) == SelectSeq(c.tracks, IsKept)
\* The source's rotation tracks, in order.
IsRotationTrack(t) == IsRotationName(t.name)
RotationTracks(c) == SelectSeq(c.tracks, IsRotationTrack)
\* The argument of the k-th application.
Argument(k) == IF k = 1 THEN clip ELSE retargeted[k - 1]
PrefixFree(c) == \A i \in 1..Len(c.tracks) : ~StartsWithPrefix(c.tracks[i].name)

\* C15 (RetargetSpec): no track of a clip returned by retargetAnimation has
\* a name ending in .position or in .scale.
C15_NoPositionNoScale ==
    \A k \in 1..Len(retargeted) :
        \A i \in 1..Len(retargeted[k].tracks) :
            ~IsPositionOrScaleName(retargeted[k].tracks[i].name)

C15_Witness ==
    /\ Len(retargeted) = 1
    /\ Len(clip.tracks) = 2
    /\ SuffixOf(clip.tracks[1].name) = ".scale"
    /\ SuffixOf(clip.tracks[2].name) = ".quaternion"
    /\ Len(retargeted[1].tracks) = 1

\* C16 (RetargetSpec): the output track names are the names of the source's
\* rotation tracks, in order, each without one leading prefix.
\* Fails through the defect of C19: tracks of any other property than
\* position and scale are retained as well.
C16_NamesAreStrippedRotationNames ==
    Len(retargeted) >= 1
        => NamesOf(retargeted[1].tracks)
             = [i \in 1..Len(RotationTracks(clip)) |->
                    Stripped(RotationTracks(clip)[i].name)]

\* C17 (RetargetSpec): on a clip none of whose track names starts with the
\* prefix, a second application returns what the first returned.
C17_IdempotentWithoutPrefix ==
    \A k \in 1..Len(retargeted) :
        (k + 1 <= Len(retargeted) /\ PrefixFree(Argument(k)))
            => retargeted[k + 1] = retargeted[k]

C17_Witness ==
    /\ Len(retargeted) = 3
    /\ Len(clip.tracks) = 2
    /\ \A i \in 1..2 : StartsWithPrefix(clip.tracks[i].name)
    /\ Len(retargeted[1].tracks) = 1
    /\ PrefixFree(retargeted[1])
    /\ retargeted[1].tracks # Retained(clip)
    /\ retargeted[3] = retargeted[2]

\* C18 (RetargetSpec): the returned clip has the name and the duration of
\* the argument, and its i-th track has the times, the values and the kind
\* of the i-th retained track of the argument.
C18_ClipAndSamplesKept ==
    \A k \in 1..Len(retargeted) :
        LET src == Argument(k)
            out == retargeted[k]
        IN /\ out.name = src.name
           /\ out.duration = src.duration
           /\ Len(out.tracks) = Len(Retained(src))
           /\ \A i \in 1..Len(out.tracks) :
                 /\ out.tracks[i].times = Retained(src)[i].times
                 /\ out.tracks[i].values = Retained(src)[i].values
                 /\ out.tracks[i].kind = Retained(src)[i].kind

C18_Witness ==
    /\ Len(retargeted) = 1
    /\ Len(clip.tracks) = 2
    /\ clip.tracks[1].kind = "NumberKeyframeTrack"
    /\ clip.tracks[2].kind = "QuaternionKeyframeTrack"
    /\ StartsWithPrefix(clip.tracks[2].name)
    /\ Len(retargeted[1].tracks) = 2
    /\ retargeted[1].tracks[2].name # clip.tracks[2].name
    /\ retargeted[1].name = "Take 001"
    /\ retargeted[1].duration = 2

\* C19 (RetargetSpec): every track of a clip returned by retargetAnimation
\* is a rotation track.
\* Fails: only .position and .scale are skipped, so a track of any other
\* property, such as morph-target influences, is cloned into the output.
C19_OnlyRotationTracks ==
    \A k \in 1..Len(retargeted) :
        \A i \in 1..Len(retargeted[k].tracks) :
            /\ IsRotationName(retargeted[k].tracks[i].name)
            /\ retargeted[k].tracks[i].kind = "QuaternionKeyframeTrack"

\* --------------------------------------------------- lifecycle vocabulary
\* The names the current run of the effect has registered.
RegisteredThisRun == {order[i] : i \in 1..Len(order)}
\* The state is Loading: the current run has not registered all three
\* animations and no model-load or initialization failure has occurred.
Loading == RegisteredThisRun # Names /\ error = null
\* The number of effect runs that have not been torn down.
LiveRuns == IF mounted /\ effect = "run" THEN 1 ELSE 0
\* The last step was a load callback delivered after the unmount.
CallbackAfterTeardown ==
    /\ ~mounted
    /\ lastOp.op \in {"modelLoaded", "modelFailed",
                      "onAnimationLoaded", "onAnimationEmpty"}

\* C11 (LifeSpec): while the component is mounted, isLoading is TRUE exactly
\* in the Loading states, also after the effect has been re-run.
\* Fails: a re-run issues new loads but never sets isLoading back to TRUE.
C11_IndicatorExactlyWhileLoading == mounted => (isLoading <=> Loading)

\* C12 (LifeSpec): every resize listener and every renderer of an effect
\* run that has been torn down is gone: what remains belongs to a run that
\* is still live.
\* Fails: the cleanup only removes the canvas; the function that removes
\* the listener is returned to the loader, which drops it, and no renderer
\* is ever disposed.
C12_TeardownReleasesEverything ==
    /\ resizeListeners <= LiveRuns
    /\ renderers <= LiveRuns

\* C13 (LifeSpec): a load callback delivered after the unmount changes
\* neither the registry, the mixer reference, the active-action pointer
\* nor the loading and error flags.
\* Fails: the callbacks do not check whether the component still exists.
C13_LateCallbackIsNoOp ==
    CallbackAfterTeardown
        => /\ actionsRef = pre.actionsRef
           /\ mixerRef = pre.mixerRef
           /\ currentActionRef = pre.currentActionRef
           /\ isLoading = pre.isLoading
           /\ error = pre.error
====
